---- MODULE Spec2Model ----
(***************************************************************************)
(* Semantic clustering and harmonization of compliance requirements:       *)
(* SemanticClusteringEngine of app/api/parser/semantic_clustering_engine.py *)
(* and the ComplianceRequirement / SemanticCluster / HarmonizationResponse *)
(* records of app/api/parser/models_v3.py.                                 *)
(*                                                                         *)
(* Python strings are TLA+ strings; Python's None is the value None below. *)
(* Floats that the claims read are kept exact: a ratio is a reduced        *)
(* fraction [num, den], a cosine similarity is compared by cross           *)
(* multiplication and reported in hundredths.                              *)
(***************************************************************************)
EXTENDS Integers, Sequences, FiniteSets, TLC

\* ------------------------------------------------------------------------
\* Bounds of the model
\* ------------------------------------------------------------------------

\* longest request body (number of requirements) explored by Spec
MaxReqs == 4
\* longest request body explored by the field specifications
MaxMembers == 3
\* calls of harmonize_requirements on the one engine instance
MaxCalls == 2

\* ------------------------------------------------------------------------
\* Python values
\* ------------------------------------------------------------------------

\* Python's None, for the Optional[str] fields.
None == "<None>"

\* Python truthiness of an Optional[str]: None and "" are falsy.
Truthy(x) == x # None /\ x # ""

Range(seq) == {seq[i] : i \in DOMAIN seq}

\* the function f and the sequence seq with every value computed once
Computed(f) == f @@ <<>>
ComputedSeq(seq) == seq \o <<>>

RECURSIVE SumSeq(_)
SumSeq(seq) == IF seq = <<>> THEN 0 ELSE Head(seq) + SumSeq(Tail(seq))

RECURSIVE SumOver(_, _)
\* sum of f[x] for x in the finite set S
SumOver(f, S) ==
    IF S = {} THEN 0
    ELSE LET x == CHOOSE y \in S : TRUE IN f[x] + SumOver(f, S \ {x})

RECURSIVE Gcd(_, _)
Gcd(a, b) == IF b = 0 THEN a ELSE Gcd(b, a % b)

\* the float n / d as a reduced fraction
Fraction(n, d) ==
    LET g == Gcd(n, d) IN
    IF g = 0 THEN [num |-> 0, den |-> 1] ELSE [num |-> n \div g, den |-> d \div g]

\* str.lower(), str.__contains__, str.join
UpperLetters == "ABCDEFGHIJKLMNOPQRSTUVWXYZ"
LowerLetters == "abcdefghijklmnopqrstuvwxyz"
Digits == "0123456789"

CharAt(s, i) == SubSeq(s, i, i)

CharsOf(s) == {CharAt(s, i) : i \in 1..Len(s)}

UpperSet == CharsOf(UpperLetters)
LowerOf ==
    Computed([c \in UpperSet |->
                 CharAt(LowerLetters, CHOOSE i \in 1..Len(UpperLetters) : CharAt(UpperLetters, i) = c)])

LowerChar(c) == IF c \in UpperSet THEN LowerOf[c] ELSE c

RECURSIVE Lower(_)
Lower(s) ==
    IF Len(s) = 0 THEN ""
    ELSE IF Len(s) = 1 THEN LowerChar(s)
    ELSE LET h == Len(s) \div 2
         IN Lower(SubSeq(s, 1, h)) \o Lower(SubSeq(s, h + 1, Len(s)))

\* sub in s
Contains(s, sub) ==
    \/ sub = ""
    \/ \E i \in 1..(Len(s) - Len(sub) + 1) : SubSeq(s, i, i + Len(sub) - 1) = sub

RECURSIVE Join(_, _)
\* sep.join(parts)
Join(sep, parts) ==
    IF parts = <<>> THEN ""
    ELSE IF Len(parts) = 1 THEN parts[1]
    ELSE parts[1] \o sep \o Join(sep, Tail(parts))

\* ------------------------------------------------------------------------
\* models_v3.py: the records
\* ------------------------------------------------------------------------

MappedControl(control_id, category, status) ==
    [control_id |-> control_id, category |-> category, status |-> status]

ComplianceRequirement(policy, actor, requirement, trigger, deadline, penalty, mapped_controls, confidence_score, source_text, regulatory_framework, risk_level, business_impact) ==
    [policy |-> policy, actor |-> actor, requirement |-> requirement,
     trigger |-> trigger, deadline |-> deadline, penalty |-> penalty,
     mapped_controls |-> mapped_controls, confidence_score |-> confidence_score,
     source_text |-> source_text, regulatory_framework |-> regulatory_framework,
     risk_level |-> risk_level, business_impact |-> business_impact]

\* Optional[ComplianceRequirement] = None
NoRequirement == [none |-> TRUE]

\* req_indices is the list of input positions _create_clusters groups under
\* the cluster's label; the code holds it next to the requirements while it
\* builds the cluster.
SemanticCluster(cluster_id, cluster_name, requirements, similarity_score, req_indices) ==
    [cluster_id |-> cluster_id, cluster_name |-> cluster_name,
     requirements |-> requirements, similarity_score |-> similarity_score,
     harmonized_requirement |-> NoRequirement, req_indices |-> req_indices]

HarmonizationResponse(original_requirements, clusters, harmonized_requirements, total_clusters, harmonization_ratio) ==
    [original_requirements |-> original_requirements, clusters |-> clusters,
     harmonized_requirements |-> harmonized_requirements,
     total_clusters |-> total_clusters, harmonization_ratio |-> harmonization_ratio]

\* ------------------------------------------------------------------------
\* Text representation and vectors
\* ------------------------------------------------------------------------

\* _prepare_texts_for_clustering: policy, actor, requirement and trigger of
\* each requirement joined with " ", the falsy parts left out.
PrepareText(req) ==
    Join(" ", SelectSeq(<<req.policy, req.actor, req.requirement, req.trigger>>, Truthy))

_prepare_texts_for_clustering(requirements) ==
    ComputedSeq([i \in DOMAIN requirements |-> PrepareText(requirements[i])])

\* Tokens of a text as the vectorizers see it: lower-cased runs of two or
\* more letters or digits.
WordChars == CharsOf(LowerLetters) \cup CharsOf(Digits)

Tokenize(text) ==
    LET s == Lower(text)
        word == ComputedSeq([i \in 1..Len(s) |-> CharAt(s, i) \in WordChars])
        positions == ComputedSeq([i \in 1..Len(s) |-> i])
        starts == SelectSeq(positions, LAMBDA i : word[i] /\ (i = 1 \/ ~word[i - 1]))
        ends == SelectSeq(positions, LAMBDA i : word[i] /\ (i = Len(s) \/ ~word[i + 1]))
        runs == ComputedSeq([k \in DOMAIN starts |-> SubSeq(s, starts[k], ends[k])])
    IN SelectSeq(runs, LAMBDA w : Len(w) >= 2)

\* A vector is a function from its non-zero features to their weights.
CountVector(features) ==
    Computed([f \in Range(features) |-> Cardinality({i \in DOMAIN features : features[i] = f})])

Dot(u, v) ==
    LET common == DOMAIN u \cap DOMAIN v
        prod == [f \in common |-> u[f] * v[f]]
    IN SumOver(prod, common)

\* The sentence model's vectors have components of either sign.  A token
\* weighs +1 on its own feature; the tokens of Opposite weigh -1 on the
\* feature of their counterpart, so that texts can point in opposite
\* directions.
Opposite ==
    [t \in {"forbidden", "outsiders", "prohibited", "abstaining"} |->
        IF t = "forbidden" THEN "allowed"
        ELSE IF t = "outsiders" THEN "insiders"
        ELSE IF t = "prohibited" THEN "permitted"
        ELSE "trading"]

Feature(token) == IF token \in DOMAIN Opposite THEN Opposite[token] ELSE token

Weight(token) == IF token \in DOMAIN Opposite THEN -1 ELSE 1

SignedVector(tokens) ==
    Computed([f \in {Feature(tokens[i]) : i \in DOMAIN tokens} |->
                 SumSeq(ComputedSeq([i \in DOMAIN tokens |->
                            IF Feature(tokens[i]) = f THEN Weight(tokens[i]) ELSE 0]))])

\* SentenceTransformer.encode: each text on its own, the same text always to
\* the same vector.  The model's vector of a text is taken to be the sum of
\* the weights of its tokens: their counts, for tokens without a counterpart.
Encode(texts) == ComputedSeq([i \in DOMAIN texts |-> SignedVector(Tokenize(texts[i]))])

\* TfidfVectorizer(stop_words='english', ngram_range=(1, 3)): the stop words
\* this model's texts can hold
StopWords ==
    {"the", "of", "with", "and", "or", "in", "to", "an", "upon", "by", "for", "at", "within",
     "other", "all", "none", "always"}

NotStopWord(w) == w \notin StopWords

\* the 1-, 2- and 3-grams of a token list, with multiplicity
NGrams(tokens) ==
    LET grams(n) == [i \in 1..(IF Len(tokens) >= n THEN Len(tokens) - n + 1 ELSE 0) |->
                        Join(" ", SubSeq(tokens, i, i + n - 1))]
    IN grams(1) \o grams(2) \o grams(3)

Analyze(text) == NGrams(SelectSeq(Tokenize(text), NotStopWord))

\* smooth idf ln((1 + n) / (1 + df)) + 1 in fifths, n documents, df of them
\* holding the term
IdfFifths(n, df) ==
    LET table == << <<5>>, <<7, 5>>, <<8, 6, 5>>, <<10, 8, 6, 5>>,
                    <<10, 8, 7, 6, 5>>, <<11, 9, 8, 7, 6, 5>> >>
    IN IF n \in DOMAIN table THEN table[n][df] ELSE 5

\* TfidfVectorizer.fit: the vocabulary and idf weights of this batch
TfidfFit(texts) ==
    LET docs == ComputedSeq([i \in DOMAIN texts |-> CountVector(Analyze(texts[i]))])
        vocabulary == UNION {DOMAIN docs[i] : i \in DOMAIN texts}
        df(f) == Cardinality({i \in DOMAIN texts : f \in DOMAIN docs[i]})
    IN [fitted |-> TRUE, vocabulary |-> vocabulary,
        idf |-> Computed([f \in vocabulary |-> IdfFifths(Len(texts), df(f))])]

\* TfidfVectorizer.transform with a fitted vectorizer: tf * idf over the
\* features of the fitted vocabulary (the L2 norm does not change a cosine)
TfidfTransform(vectorizer, texts) ==
    ComputedSeq([i \in DOMAIN texts |->
        LET tf == CountVector(Analyze(texts[i]))
        IN Computed([f \in DOMAIN tf \cap vectorizer.vocabulary |-> tf[f] * vectorizer.idf[f]])])

UnfittedVectorizer == [fitted |-> FALSE, vocabulary |-> {}, idf |-> <<>>]

\* _initialize_models: the sentence model when it loads, None when loading
\* raises; the TF-IDF vectorizer in both cases.
SentenceModels == {"all-MiniLM-L6-v2", None}

\* Faulty variant of _generate_embeddings: a vectorizer that is already fitted
\* is not fitted again, the texts are transformed with its vocabulary.
_generate_embeddings_fit_once(sentence_model, vectorizer, texts) ==
    LET FitTransform(fit) ==
            IF fit.vocabulary = {}
            THEN [embeddings |-> <<>>, vectorizer |-> vectorizer, raised |-> TRUE]
            ELSE [embeddings |-> TfidfTransform(fit, texts), vectorizer |-> fit, raised |-> FALSE]
    IN IF sentence_model # None
       THEN [embeddings |-> Encode(texts), vectorizer |-> vectorizer, raised |-> FALSE]
       ELSE IF vectorizer.fitted THEN FitTransform(vectorizer)
       ELSE FitTransform(TfidfFit(texts))

\* _generate_embeddings: [embeddings, vectorizer after the call, raised]
_generate_embeddings(sentence_model, vectorizer, texts) ==
    LET FitTransform(fit) ==
            IF fit.vocabulary = {}
            THEN \* fit_transform raises ValueError: empty vocabulary
                 [embeddings |-> <<>>, vectorizer |-> vectorizer, raised |-> TRUE]
            ELSE [embeddings |-> TfidfTransform(fit, texts), vectorizer |-> fit, raised |-> FALSE]
    IN IF sentence_model # None
       THEN [embeddings |-> Encode(texts), vectorizer |-> vectorizer, raised |-> FALSE]
       ELSE FitTransform(TfidfFit(texts))

\* ------------------------------------------------------------------------
\* Cosine distance and the density pass
\* ------------------------------------------------------------------------

\* DBSCAN(eps=0.3, ...), in tenths
EpsTenths == 3
min_cluster_size == 2
max_clusters == 20
\* KMeans(random_state=42)
random_state == 42

\* cosine distance of u and v <= eps, i.e. cos >= 1 - eps, by cross
\* multiplication; a zero vector has similarity 0 to everything
WithinEps(u, v) ==
    LET d == Dot(u, v)
        nu == Dot(u, u)
        nv == Dot(v, v)
        c == 10 - EpsTenths
    IN nu > 0 /\ nv > 0 /\ d >= 0 /\ 100 * d * d >= c * c * nu * nv

\* DBSCAN.fit_predict(embeddings) with metric='cosine': a point is a core
\* point when its eps-neighbourhood (itself included) holds min_samples
\* points; scanning the points in index order, each still unlabelled core
\* point starts the next cluster, which takes every unlabelled point
\* reachable through core points; what is left is noise, -1.
RECURSIVE DbscanGrow(_, _, _, _)
DbscanGrow(nbr, core, labels, S) ==
    LET T == S \cup {j \in DOMAIN labels :
                        labels[j] = -1 /\ \E i \in S \cap core : j \in nbr[i]}
    IN IF T = S THEN S ELSE DbscanGrow(nbr, core, labels, T)

RECURSIVE DbscanInner(_, _, _, _, _)
DbscanInner(nbr, core, labels, i, label_num) ==
    IF i > Len(labels) THEN labels
    ELSE IF labels[i] # -1 \/ i \notin core
         THEN DbscanInner(nbr, core, labels, i + 1, label_num)
         ELSE LET S == DbscanGrow(nbr, core, labels, {i})
              IN DbscanInner(nbr, core,
                             ComputedSeq([j \in DOMAIN labels |-> IF j \in S THEN label_num ELSE labels[j]]),
                             i + 1, label_num + 1)

DBSCAN(embeddings, min_samples) ==
    LET N == Len(embeddings)
        nbr == ComputedSeq([i \in 1..N |-> {j \in 1..N : j = i \/ WithinEps(embeddings[i], embeddings[j])}])
        core == {i \in 1..N : Cardinality(nbr[i]) >= min_samples}
    IN DbscanInner(nbr, core, ComputedSeq([i \in 1..N |-> -1]), 1, 0)

\* ------------------------------------------------------------------------
\* The centroid pass
\* ------------------------------------------------------------------------

Val(v, f) == IF f \in DOMAIN v THEN v[f] ELSE 0

Min(a, b) == IF a <= b THEN a ELSE b

\* squared Euclidean distance of two points
SqDist(u, v) ==
    LET fs == DOMAIN u \cup DOMAIN v
        sq == [f \in fs |-> (Val(u, f) - Val(v, f)) * (Val(u, f) - Val(v, f))]
    IN SumOver(sq, fs)

\* A centre is the mean of its points, kept as their sum and their number.
Centre(points) ==
    LET fs == UNION {DOMAIN points[i] : i \in DOMAIN points}
        col(f) == [i \in DOMAIN points |-> Val(points[i], f)]
    IN [sum |-> Computed([f \in fs |-> SumSeq(col(f))]), n |-> Len(points)]

\* n * n * (squared distance of p to the centre c)
ScaledSqDist(p, c) ==
    LET fs == DOMAIN p \cup DOMAIN c.sum
        sq == [f \in fs |-> (c.n * Val(p, f) - Val(c.sum, f)) * (c.n * Val(p, f) - Val(c.sum, f))]
    IN SumOver(sq, fs)

\* p is strictly nearer to centre c than to centre d
Nearer(p, c, d) == ScaledSqDist(p, c) * d.n * d.n < ScaledSqDist(p, d) * c.n * c.n

\* the seeding of the centres from the random state: the first centre is the
\* point the state selects, each further one a point farthest from the
\* centres chosen so far (the first such point after the previous choice)
RECURSIVE KMeansInit(_, _, _)
KMeansInit(X, k, chosen) ==
    IF Len(chosen) >= k THEN chosen
    ELSE LET N == Len(X)
             away(i) == LET ds == {SqDist(X[i], X[c]) : c \in Range(chosen)}
                        IN CHOOSE d \in ds : \A e \in ds : d <= e
             far == {i \in 1..N : \A j \in 1..N : away(i) >= away(j)}
             last == chosen[Len(chosen)]
             rot(i) == (i - last + N) % N
             pick == CHOOSE i \in far : \A j \in far : rot(i) <= rot(j)
         IN KMeansInit(X, k, Append(chosen, pick))

\* Faulty variant of KMeansAssign: the points are dealt out to the centres in
\* turn, whatever their distances.
KMeansAssignInTurn(X, centres) ==
    ComputedSeq([i \in DOMAIN X |-> (i - 1) % Len(centres)])

\* the label of each point: the index (from 0) of its nearest centre, the
\* lowest index on a tie
KMeansAssign(X, centres) ==
    ComputedSeq([i \in DOMAIN X |->
        (CHOOSE c \in DOMAIN centres :
            /\ \A d \in DOMAIN centres : ~Nearer(X[i], centres[d], centres[c])
            /\ \A d \in DOMAIN centres :
                   d < c => Nearer(X[i], centres[c], centres[d])) - 1])

\* the mean of each cluster; a cluster without points keeps its centre
KMeansUpdate(X, labels, centres) ==
    ComputedSeq([c \in DOMAIN centres |->
        LET mine == SelectSeq([i \in DOMAIN X |-> i], LAMBDA i : labels[i] = c - 1)
        IN IF mine = <<>> THEN centres[c]
           ELSE Centre(ComputedSeq([m \in DOMAIN mine |-> X[mine[m]]]))])

RECURSIVE Lloyd(_, _, _, _)
Lloyd(X, labels, centres, iter) ==
    LET next == KMeansUpdate(X, labels, centres)
        relabelled == KMeansAssign(X, next)
    IN IF relabelled = labels \/ iter >= 300 THEN relabelled
       ELSE Lloyd(X, relabelled, next, iter + 1)

\* KMeans(n_clusters=k, random_state=seed).fit_predict(X)
KMeans(X, k, seed) ==
    LET first == (seed % Len(X)) + 1
        start == KMeansInit(X, k, <<first>>)
        centres == ComputedSeq([c \in 1..k |-> Centre(<<X[start[c]]>>)])
    IN Lloyd(X, KMeansAssign(X, centres), centres, 1)

\* Faulty variant of RandomStates: KMeans without random_state starts from any state.
RandomStatesUnseeded == {random_state, random_state + 1}

\* the random states KMeans may start from: the fixed random_state=42
RandomStates == {random_state}

\* Faulty variant of NClusters: one cluster is asked for per point.
NClustersPerPoint(N) == N

\* n_clusters = min(len(embeddings) // 2, self.max_clusters)
NClusters(N) == Min(N \div 2, max_clusters)

\* the passes _perform_clustering runs on N points whose density labels are
\* dbscan_labels
UsesKMeans(dbscan_labels) ==
    /\ Len(dbscan_labels) >= 2
    /\ Cardinality(Range(dbscan_labels)) <= 1
    /\ NClusters(Len(dbscan_labels)) > 1

_perform_clustering(embeddings, seed) ==
    IF Len(embeddings) < 2 THEN ComputedSeq([i \in DOMAIN embeddings |-> 0])
    ELSE LET cluster_labels == DBSCAN(embeddings, min_cluster_size)
         IN IF UsesKMeans(cluster_labels)
            THEN KMeans(embeddings, NClusters(Len(embeddings)), seed)
            ELSE cluster_labels

\* ------------------------------------------------------------------------
\* Cluster similarity and cluster names
\* ------------------------------------------------------------------------

ISqrt(x) == CHOOSE r \in 0..100 : r * r <= x /\ (r + 1) * (r + 1) > x

\* cosine similarity of two vectors in hundredths, rounded towards zero
CosineHundredths(u, v) ==
    LET d == Dot(u, v)
        n == Dot(u, u) * Dot(v, v)
        size == IF n = 0 THEN 0 ELSE ISqrt((((d * d) * 100) \div n) * 100)
    IN IF d < 0 THEN 0 - size ELSE size

\* _calculate_cluster_similarity: 1.0 for fewer than two members, else the
\* mean of the off-diagonal entries of the members' cosine similarity matrix
_calculate_cluster_similarity(embeddings, req_indices) ==
    IF Len(req_indices) < 2 THEN 100
    ELSE LET n == Len(req_indices)
             pairs == {pr \in (1..n) \X (1..n) : pr[1] # pr[2]}
             sim == [pr \in pairs |-> CosineHundredths(embeddings[req_indices[pr[1]]],
                                                         embeddings[req_indices[pr[2]]])]
         IN SumOver(sim, pairs) \div (n * (n - 1))

\* max(counts, key=counts.get) of a defaultdict filled in the order of
\* buckets: the bucket with the largest count, and of several the one
\* whose first member comes first
RECURSIVE FirstSeen(_)
FirstSeen(seq) ==
    IF seq = <<>> THEN <<>>
    ELSE LET rest == FirstSeen(SubSeq(seq, 1, Len(seq) - 1))
             last == seq[Len(seq)]
         IN IF last \in Range(rest) THEN rest ELSE Append(rest, last)

Count(seq, x) == Cardinality({i \in DOMAIN seq : seq[i] = x})

\* Faulty variant of MostCommon: the bucket of the first member, whatever the
\* counts.
MostCommonFirstBucket(buckets) == buckets[1]

\* Faulty variant of MostCommon: of several buckets with the largest count,
\* the one seen last.
MostCommonLastSeen(buckets) ==
    LET keys == FirstSeen(buckets)
        best == CHOOSE i \in DOMAIN keys :
                    /\ \A j \in DOMAIN keys : Count(buckets, keys[j]) <= Count(buckets, keys[i])
                    /\ \A j \in DOMAIN keys :
                           j > i => Count(buckets, keys[j]) < Count(buckets, keys[i])
    IN keys[best]

MostCommon(buckets) ==
    LET keys == FirstSeen(buckets)
        best == CHOOSE i \in DOMAIN keys :
                    /\ \A j \in DOMAIN keys : Count(buckets, keys[j]) <= Count(buckets, keys[i])
                    /\ \A j \in DOMAIN keys :
                           j < i => Count(buckets, keys[j]) < Count(buckets, keys[i])
    IN keys[best]

PolicyBucket(policy) ==
    IF Contains(policy, "Securities Exchange Act") THEN "SEC"
    ELSE IF Contains(policy, "Sarbanes-Oxley") \/ Contains(policy, "SOX") THEN "SOX"
    ELSE IF Contains(policy, "Dodd-Frank") THEN "Dodd-Frank"
    ELSE "Other"

ActorBucket(actor) ==
    LET a == Lower(actor) IN
    IF Contains(a, "beneficial owner") THEN "Beneficial Owners"
    ELSE IF Contains(a, "executive") THEN "Executive Officers"
    ELSE IF Contains(a, "director") THEN "Directors"
    ELSE IF Contains(a, "registrant") THEN "Registrants"
    ELSE "Other"

RequirementBucket(req_text) ==
    LET t == Lower(req_text) IN
    IF Contains(t, "report") THEN "Reporting"
    ELSE IF Contains(t, "disclose") THEN "Disclosure"
    ELSE IF Contains(t, "file") THEN "Filing"
    ELSE IF Contains(t, "maintain") THEN "Maintenance"
    ELSE "Other"

_generate_cluster_name(requirements) ==
    IF requirements = <<>> THEN "Unknown Cluster"
    ELSE LET most_common_policy ==
                 MostCommon(ComputedSeq([i \in DOMAIN requirements |-> PolicyBucket(requirements[i].policy)]))
             most_common_actor ==
                 MostCommon(ComputedSeq([i \in DOMAIN requirements |-> ActorBucket(requirements[i].actor)]))
             most_common_req ==
                 MostCommon(ComputedSeq([i \in DOMAIN requirements |->
                                            RequirementBucket(requirements[i].requirement)]))
         IN most_common_policy \o " - " \o most_common_actor \o " - " \o most_common_req

\* ------------------------------------------------------------------------
\* _create_clusters
\* ------------------------------------------------------------------------

\* Faulty variant of IndicesOf: every clustered position is grouped under every label.
IndicesOfEveryLabel(cluster_labels, label) ==
    SelectSeq([i \in DOMAIN cluster_labels |-> i], LAMBDA i : cluster_labels[i] # -1)

\* the input positions that carry the label, in input order
IndicesOf(cluster_labels, label) ==
    SelectSeq([i \in DOMAIN cluster_labels |-> i], LAMBDA i : cluster_labels[i] = label)

CreateCluster(requirements, cluster_labels, embeddings, label) ==
    LET req_indices == IndicesOf(cluster_labels, label)
        cluster_requirements == ComputedSeq([m \in DOMAIN req_indices |-> requirements[req_indices[m]]])
    IN SemanticCluster("CLUSTER-" \o ToString(label),
                       _generate_cluster_name(cluster_requirements),
                       cluster_requirements,
                       _calculate_cluster_similarity(embeddings, req_indices),
                       req_indices)

\* Faulty variant of ClusterLabels: the labels in increasing order, not in the
\* order in which they first occur.
ClusterLabelsSorted(cluster_labels) ==
    SelectSeq([l \in 1..max_clusters |-> l - 1], LAMBDA l : l \in Range(cluster_labels))

\* the labels that become clusters: the keys of cluster_dict in insertion
\* order, the noise label -1 skipped
ClusterLabels(cluster_labels) == SelectSeq(FirstSeen(cluster_labels), LAMBDA l : l # -1)

_create_clusters(requirements, cluster_labels, embeddings) ==
    LET keys == ClusterLabels(cluster_labels)
    IN ComputedSeq([c \in DOMAIN keys |->
                        CreateCluster(requirements, cluster_labels, embeddings, keys[c])])

\* ------------------------------------------------------------------------
\* Field harmonizers
\* ------------------------------------------------------------------------

\* max(seq, key=...) and min(seq, key=...), keys[i] being the key of seq[i]:
\* the first element with the largest (smallest) key
ArgMaxFirst(seq, keys) ==
    seq[CHOOSE i \in DOMAIN seq :
            /\ \A j \in DOMAIN seq : keys[j] <= keys[i]
            /\ \A j \in DOMAIN seq : j < i => keys[j] < keys[i]]

ArgMinFirst(seq, keys) ==
    seq[CHOOSE i \in DOMAIN seq :
            /\ \A j \in DOMAIN seq : keys[j] >= keys[i]
            /\ \A j \in DOMAIN seq : j < i => keys[j] > keys[i]]

Field(requirements, name) == ComputedSeq([i \in DOMAIN requirements |-> requirements[i][name]])

\* Faulty variant of _harmonize_policy: the first member's policy, cited or
\* not.
_harmonize_policy_first(policies) ==
    IF policies = <<>> THEN "General Compliance Requirement" ELSE policies[1]

_harmonize_policy(policies) ==
    IF policies = <<>> THEN "General Compliance Requirement"
    ELSE LET specific_policies ==
                 SelectSeq(policies, LAMBDA p : Contains(p, "Section") \/ Contains(p, "Rule"))
         IN IF specific_policies # <<>> THEN specific_policies[1] ELSE policies[1]

_harmonize_actor(actors) ==
    IF actors = <<>> THEN "Covered Entity"
    ELSE LET specific_actors == SelectSeq(actors, LAMBDA a : Len(a) > 20)
         IN IF specific_actors # <<>> THEN specific_actors[1] ELSE actors[1]

\* Faulty variant of _harmonize_requirement_text: of several longest texts the
\* last one.
_harmonize_requirement_text_last(req_texts) ==
    IF req_texts = <<>> THEN "Compliance requirement"
    ELSE req_texts[CHOOSE i \in DOMAIN req_texts :
                       /\ \A j \in DOMAIN req_texts : Len(req_texts[j]) <= Len(req_texts[i])
                       /\ \A j \in DOMAIN req_texts : j > i => Len(req_texts[j]) < Len(req_texts[i])]

_harmonize_requirement_text(req_texts) ==
    IF req_texts = <<>> THEN "Compliance requirement"
    ELSE ArgMaxFirst(req_texts, ComputedSeq([i \in DOMAIN req_texts |-> Len(req_texts[i])]))

\* Faulty variant of _harmonize_trigger: the qualifiers are looked for in the
\* trigger as written, not in its lower-cased form.
_harmonize_trigger_cased(triggers) ==
    IF triggers = <<>> THEN "Upon occurrence of triggering event"
    ELSE LET restrictive_triggers ==
                 SelectSeq(triggers, LAMBDA t : Contains(t, "within") \/ Contains(t, "immediately"))
         IN IF restrictive_triggers # <<>> THEN restrictive_triggers[1] ELSE triggers[1]

_harmonize_trigger(triggers) ==
    IF triggers = <<>> THEN "Upon occurrence of triggering event"
    ELSE LET restrictive_triggers ==
                 SelectSeq(triggers, LAMBDA t : Contains(Lower(t), "within")
                                                  \/ Contains(Lower(t), "immediately"))
         IN IF restrictive_triggers # <<>> THEN restrictive_triggers[1] ELSE triggers[1]

DigitSet == CharsOf(Digits)

IsDigit(c) == c \in DigitSet

HasDigit(s) == \E i \in 1..Len(s) : IsDigit(CharAt(s, i))

DigitValue(c) == (CHOOSE i \in 1..Len(Digits) : CharAt(Digits, i) = c) - 1

RECURSIVE ReadInt(_, _)
\* the value of the run of digits s starts with, after the digits read so far
ReadInt(s, acc) ==
    IF s = "" \/ ~IsDigit(Head(s)) THEN acc
    ELSE ReadInt(Tail(s), 10 * acc + DigitValue(Head(s)))

RECURSIVE FirstInt(_)
\* int(re.search(r'\d+', s).group()) of a string that holds a digit
FirstInt(s) == IF IsDigit(Head(s)) THEN ReadInt(s, 0) ELSE FirstInt(Tail(s))

_harmonize_deadline(deadlines) ==
    IF deadlines = <<>> THEN None
    ELSE LET restrictive_deadlines ==
                 SelectSeq(deadlines, LAMBDA d : Contains(Lower(d), "immediately"))
             time_deadlines == SelectSeq(deadlines, HasDigit)
         IN IF restrictive_deadlines # <<>> THEN restrictive_deadlines[1]
            ELSE IF time_deadlines # <<>>
                 THEN ArgMinFirst(time_deadlines,
                                  ComputedSeq([i \in DOMAIN time_deadlines |-> FirstInt(time_deadlines[i])]))
            ELSE deadlines[1]

\* Faulty variant of _harmonize_penalty: one penalty is selected instead of all joined.
_harmonize_penalty_first(penalties) ==
    IF penalties = <<>> THEN None ELSE penalties[1]

_harmonize_penalty(penalties) ==
    IF penalties = <<>> THEN None ELSE Join("; ", penalties)

\* Faulty variant of _identify_common_framework: the first framework found,
\* whatever the counts.
_identify_common_framework_first(requirements) ==
    LET frameworks == SelectSeq(Field(requirements, "regulatory_framework"), Truthy)
    IN IF frameworks = <<>> THEN None ELSE frameworks[1]

_identify_common_framework(requirements) ==
    LET frameworks == SelectSeq(Field(requirements, "regulatory_framework"), Truthy)
    IN IF frameworks = <<>> THEN None ELSE MostCommon(frameworks)

\* {"High": 3, "Medium": 2, "Low": 1}.get(x, 2)
Priority(x) ==
    IF x = "High" THEN 3 ELSE IF x = "Medium" THEN 2 ELSE IF x = "Low" THEN 1 ELSE 2

\* Faulty variant of _assess_harmonized_risk: the first risk level instead of the highest.
_assess_harmonized_risk_first(requirements) ==
    LET risk_levels == SelectSeq(Field(requirements, "risk_level"), Truthy)
    IN IF risk_levels = <<>> THEN "Medium" ELSE risk_levels[1]

_assess_harmonized_risk(requirements) ==
    LET risk_levels == SelectSeq(Field(requirements, "risk_level"), Truthy)
    IN IF risk_levels = <<>> THEN "Medium"
       ELSE ArgMaxFirst(risk_levels, ComputedSeq([i \in DOMAIN risk_levels |-> Priority(risk_levels[i])]))

_assess_harmonized_impact(requirements) ==
    LET impacts == SelectSeq(Field(requirements, "business_impact"), Truthy)
    IN IF impacts = <<>> THEN "Medium"
       ELSE ArgMaxFirst(impacts, ComputedSeq([i \in DOMAIN impacts |-> Priority(impacts[i])]))

\* list({control.control_id: control for control in all_controls}.values()):
\* one control per control_id, in the order the ids first occur, each the
\* last control with its id
RECURSIVE Flatten(_)
Flatten(lists) == IF lists = <<>> THEN <<>> ELSE Head(lists) \o Flatten(Tail(lists))

\* Faulty variant of UniqueControls: the combined list as it is.
UniqueControlsAll(all_controls) == all_controls

UniqueControls(all_controls) ==
    LET ids == FirstSeen([i \in DOMAIN all_controls |-> all_controls[i].control_id])
        lastWith(id) == CHOOSE i \in DOMAIN all_controls :
                            /\ all_controls[i].control_id = id
                            /\ \A j \in DOMAIN all_controls :
                                   all_controls[j].control_id = id => j <= i
    IN ComputedSeq([k \in DOMAIN ids |-> all_controls[lastWith(ids[k])]])

\* sum(req.confidence_score for req in requirements) / len(requirements),
\* the scores being fractions
AverageConfidence(requirements) ==
    LET scores == Field(requirements, "confidence_score")
        den == 100 * Len(requirements)
        hundredths == ComputedSeq([i \in DOMAIN scores |-> (scores[i].num * 100) \div scores[i].den])
    IN Fraction(SumSeq(hundredths), den)

_create_harmonized_requirement(requirements) ==
    IF requirements = <<>> THEN NoRequirement
    ELSE IF Len(requirements) = 1 THEN requirements[1]
    ELSE ComplianceRequirement(
             _harmonize_policy(Field(requirements, "policy")),
             _harmonize_actor(Field(requirements, "actor")),
             _harmonize_requirement_text(Field(requirements, "requirement")),
             _harmonize_trigger(Field(requirements, "trigger")),
             _harmonize_deadline(SelectSeq(Field(requirements, "deadline"), Truthy)),
             _harmonize_penalty(SelectSeq(Field(requirements, "penalty"), Truthy)),
             UniqueControls(Flatten(Field(requirements, "mapped_controls"))),
             AverageConfidence(requirements),
             "Harmonized from " \o ToString(Len(requirements)) \o " requirements",
             _identify_common_framework(requirements),
             _assess_harmonized_risk(requirements),
             _assess_harmonized_impact(requirements))

\* ------------------------------------------------------------------------
\* cluster_requirements and harmonize_requirements
\* ------------------------------------------------------------------------

\* the passes _perform_clustering runs on these embeddings
ClusteringSteps(embeddings) ==
    IF Len(embeddings) < 2 THEN <<>>
    ELSE IF UsesKMeans(DBSCAN(embeddings, min_cluster_size)) THEN <<"DBSCAN", "KMeans">>
    ELSE <<"DBSCAN">>

\* similarity_score: float = Field(..., ge=0.0, le=1.0): SemanticCluster(...)
\* raises ValidationError, a ValueError, for a score outside the range
ValidSimilarity(similarity_score) == 0 <= similarity_score /\ similarity_score <= 100

\* cluster_requirements past its guard, on an engine whose models are
\* sentence_model and vectorizer: the clusters, the vectorizer the call leaves
\* behind, the steps the call ran and whether it raised
ClusterNonEmpty(sentence_model, vectorizer, requirements, seed) ==
    LET texts == _prepare_texts_for_clustering(requirements)
        Created(generated, clusters) ==
            [clusters |-> IF \A c \in DOMAIN clusters : ValidSimilarity(clusters[c].similarity_score)
                          THEN clusters ELSE <<>>,
             vectorizer |-> generated.vectorizer,
             steps |-> <<"_prepare_texts_for_clustering", "_generate_embeddings",
                         "_perform_clustering">> \o ClusteringSteps(generated.embeddings)
                       \o <<"_create_clusters">>,
             raised |-> \E c \in DOMAIN clusters : ~ValidSimilarity(clusters[c].similarity_score)]
        Clustered(generated) ==
            IF generated.raised
            THEN [clusters |-> <<>>, vectorizer |-> generated.vectorizer,
                  steps |-> <<"_prepare_texts_for_clustering", "_generate_embeddings">>,
                  raised |-> TRUE]
            ELSE Created(generated, _create_clusters(requirements,
                                                     _perform_clustering(generated.embeddings, seed),
                                                     generated.embeddings))
    IN Clustered(_generate_embeddings(sentence_model, vectorizer, texts))

\* Faulty variant of cluster_requirements: no early return for the empty list.
cluster_requirements_unguarded(sentence_model, vectorizer, requirements, seed) ==
    ClusterNonEmpty(sentence_model, vectorizer, requirements, seed)

\* cluster_requirements: the empty list returns [] at once
cluster_requirements(sentence_model, vectorizer, requirements, seed) ==
    IF requirements = <<>>
    THEN [clusters |-> <<>>, vectorizer |-> vectorizer, steps |-> <<>>, raised |-> FALSE]
    ELSE ClusterNonEmpty(sentence_model, vectorizer, requirements, seed)

\* Faulty variant of HarmonizeCluster: the harmonized requirement is not stored on
\* the cluster.
HarmonizeClusterUnattached(cluster) == cluster

\* the loop of harmonize_requirements over the clusters: a cluster with
\* requirements gets its harmonized requirement, which is appended to
\* harmonized_requirements
HarmonizeCluster(cluster) ==
    IF cluster.requirements # <<>>
    THEN [cluster EXCEPT !.harmonized_requirement =
                             _create_harmonized_requirement(cluster.requirements)]
    ELSE cluster

\* Faulty variant of HarmonizedOf: only merged clusters contribute a harmonized
\* requirement.
HarmonizedOfMerged(clusters) ==
    LET done == SelectSeq(clusters, LAMBDA c : Len(c.requirements) > 1)
    IN ComputedSeq([i \in DOMAIN done |-> done[i].harmonized_requirement])

HarmonizedOf(clusters) ==
    LET done == SelectSeq(clusters, LAMBDA c : c.requirements # <<>>)
    IN ComputedSeq([i \in DOMAIN done |-> done[i].harmonized_requirement])

\* harmonization_ratio = harmonized_count / original_count if original_count > 0 else 0
HarmonizationRatio(harmonized_count, original_count) ==
    IF original_count > 0 THEN Fraction(harmonized_count, original_count) ELSE Fraction(0, 1)

BuildResponse(requirements, clusters) ==
    LET Response(harmonized, harmonized_requirements) ==
            HarmonizationResponse(requirements, harmonized, harmonized_requirements,
                                  Len(clusters),
                                  HarmonizationRatio(Len(harmonized_requirements), Len(requirements)))
        Harmonized(harmonized) == Response(harmonized, HarmonizedOf(harmonized))
    IN Harmonized(ComputedSeq([c \in DOMAIN clusters |-> HarmonizeCluster(clusters[c])]))

\* Faulty variant of ControlsAfterExtend: the accumulator is the first
\* member's own list, which the loop then extends.
ControlsAfterExtendAliased(members, m) ==
    IF m = 1 THEN Flatten(Field(members, "mapped_controls")) ELSE members[m].mapped_controls

\* mapped_controls of the m-th member after `all_controls = []` and the loop
\* of all_controls.extend(req.mapped_controls): the accumulator is a list of
\* its own, the member's list is only read
ControlsAfterExtend(members, m) == members[m].mapped_controls

\* the members of a cluster after _create_harmonized_requirement: a single
\* member is returned as it is, the members of a larger cluster are read
\* field by field and their mapped_controls extend the accumulator
MembersAfter(members) ==
    IF Len(members) < 2 THEN members
    ELSE ComputedSeq([m \in DOMAIN members |->
             [members[m] EXCEPT !.mapped_controls = ControlsAfterExtend(members, m)]])

\* the caller's list after harmonize_requirements: the requirement objects
\* at the positions of each cluster are the members the cluster holds
ArgumentAfter(reqs, clusters) ==
    LET after == ComputedSeq([c \in DOMAIN clusters |-> MembersAfter(clusters[c].requirements)])
        holder(i) == {h \in (DOMAIN clusters) \X (1..Len(reqs)) :
                         h[2] \in DOMAIN clusters[h[1]].req_indices
                         /\ clusters[h[1]].req_indices[h[2]] = i}
        Pick(i, hs) == IF hs = {} THEN reqs[i]
                       ELSE after[(CHOOSE h \in hs : TRUE)[1]][(CHOOSE h \in hs : TRUE)[2]]
    IN ComputedSeq([i \in DOMAIN reqs |-> Pick(i, holder(i))])

\* ------------------------------------------------------------------------
\* State
\* ------------------------------------------------------------------------

VARIABLES
    constructed,     \* the module-level engine of routes_v3.py exists
    sentence_model,  \* self.sentence_model
    vectorizer,      \* self.vectorizer
    calls,           \* calls of harmonize_requirements so far
    requirements,    \* the argument of the latest call
    report,          \* what the latest call returned
    steps,           \* the steps the latest call ran
    requirements_after  \* the caller's list, as the latest call left it

vars == <<constructed, sentence_model, vectorizer, calls, requirements, report, steps, requirements_after>>

NoReport == [none |-> TRUE]
Raised == [raised |-> "ValueError"]
IsReport(r) == "clusters" \in DOMAIN r

Init ==
    /\ constructed = FALSE
    /\ sentence_model = None
    /\ vectorizer = UnfittedVectorizer
    /\ calls = 0
    /\ requirements = <<>>
    /\ report = NoReport
    /\ steps = <<>>
    /\ requirements_after = <<>>

\* SemanticClusteringEngine(): _initialize_models
Construct ==
    /\ ~constructed
    /\ constructed' = TRUE
    /\ sentence_model' \in SentenceModels
    /\ vectorizer' = UnfittedVectorizer
    /\ UNCHANGED <<calls, requirements, report, steps, requirements_after>>

\* clustering_engine.harmonize_requirements(reqs)
HarmonizeRequirements(reqs) ==
    /\ constructed
    /\ calls < MaxCalls
    /\ \E seed \in RandomStates :
          \E clustered \in {cluster_requirements(sentence_model, vectorizer, reqs, seed)} :
             /\ vectorizer' = clustered.vectorizer
             /\ steps' = clustered.steps
             /\ report' = IF clustered.raised THEN Raised
                          ELSE BuildResponse(reqs, clustered.clusters)
             /\ requirements_after' = IF clustered.raised THEN reqs
                                      ELSE ArgumentAfter(reqs, clustered.clusters)
    /\ requirements' = reqs
    /\ calls' = calls + 1
    /\ UNCHANGED <<constructed, sentence_model>>

\* ------------------------------------------------------------------------
\* Requests
\* ------------------------------------------------------------------------

ListsUpTo(pool, n) == UNION {[1..m -> pool] : m \in 0..n}

\* Two statements of one obligation that differ in the period, and an
\* unrelated one.
ReqA ==
    ComplianceRequirement("Securities Exchange Act", "Beneficial owner",
                          "File ownership disclosure within 10 days", "Upon acquisition",
                          "10 days", "fines",
                          <<MappedControl("CTRL-1", "INSIDER_REPORTING", "IMPLEMENTED")>>,
                          Fraction(9, 10), None, "SEC", "High", "Medium")
ReqB ==
    ComplianceRequirement("Securities Exchange Act", "Beneficial owner",
                          "File ownership disclosure within 30 days", "Upon acquisition",
                          "30 days", "sanctions",
                          <<MappedControl("CTRL-1", "INSIDER_REPORTING", "PENDING"),
                            MappedControl("CTRL-2", "DISCLOSURE", "PENDING")>>,
                          Fraction(7, 10), None, "SEC", "Low", "High")
ReqC ==
    ComplianceRequirement("Sarbanes-Oxley", "Registrant",
                          "Disclose risk factors annually", "Annually",
                          None, None, <<>>,
                          Fraction(1, 2), None, None, "Medium", "Low")

ReqPool == {ReqA, ReqB, ReqC}

Requests == ListsUpTo(ReqPool, MaxReqs)

\* The first request is any request; a later one submits the same list
\* again.
NextRequests(all) == IF calls = 0 THEN all ELSE {requirements}

Next ==
    \/ Construct
    \/ \E reqs \in NextRequests(Requests) : HarmonizeRequirements(reqs)

Spec == Init /\ [][Next]_vars

\* Requests whose requirements share one text and differ in the penalty:
\* absent, empty, and two penalties.
WithPenalty(penalty) == [ReqA EXCEPT !.penalty = penalty]

PenaltyPool == {WithPenalty(None), WithPenalty(""), WithPenalty("fines"), WithPenalty("sanctions")}

PenaltyRequests == ListsUpTo(PenaltyPool, MaxMembers)

NextPenalty ==
    \/ Construct
    \/ \E reqs \in NextRequests(PenaltyRequests) : HarmonizeRequirements(reqs)

SpecPenalty == Init /\ [][NextPenalty]_vars

\* Requests whose requirements share one text and differ in the severities.
WithSeverity(risk_level, business_impact) == [ReqA EXCEPT !.risk_level = risk_level, !.business_impact = business_impact]

SeverityPool ==
    {WithSeverity("Low", "High"), WithSeverity("Medium", "Medium"), WithSeverity("High", "Low"),
     WithSeverity("Low", "Low"), WithSeverity(None, "Medium")}

SeverityRequests == ListsUpTo(SeverityPool, MaxMembers)

NextSeverity ==
    \/ Construct
    \/ \E reqs \in NextRequests(SeverityRequests) : HarmonizeRequirements(reqs)

SpecSeverity == Init /\ [][NextSeverity]_vars

\* A requirement whose text holds English stop words only, among requests
\* with ordinary requirements.
ReqT ==
    ComplianceRequirement("Other", "All", "None", "Always",
                          None, None, <<>>,
                          Fraction(1, 2), None, None, "Low", "Low")

TersePool == {ReqA, ReqB, ReqT}

TerseRequests == ListsUpTo(TersePool, MaxMembers)

NextTerse ==
    \/ Construct
    \/ \E reqs \in NextRequests(TerseRequests) : HarmonizeRequirements(reqs)

SpecTerse == Init /\ [][NextTerse]_vars

\* ReqA with other whitespace in its requirement text, among requests with
\* ReqA itself and the near-identical ReqB.
ReqAw == [ReqA EXCEPT !.requirement = "File  ownership disclosure  within 10 days"]

NearPool == {ReqA, ReqAw, ReqB}

NearRequests == ListsUpTo(NearPool, MaxReqs)

NextNear ==
    \/ Construct
    \/ \E reqs \in NextRequests(NearRequests) : HarmonizeRequirements(reqs)

SpecNear == Init /\ [][NextNear]_vars

\* Requests whose requirements share one text and differ in the deadline:
\* absent, in days, in weeks, at once, and without a number.
WithDeadline(deadline) == [ReqA EXCEPT !.deadline = deadline]

DeadlinePool ==
    {WithDeadline(None), WithDeadline("10 days"), WithDeadline("30 days"),
     WithDeadline("2 weeks"), WithDeadline("Immediately"), WithDeadline("promptly")}

DeadlineRequests == ListsUpTo(DeadlinePool, MaxMembers)

NextDeadline ==
    \/ Construct
    \/ \E reqs \in NextRequests(DeadlineRequests) : HarmonizeRequirements(reqs)

SpecDeadline == Init /\ [][NextDeadline]_vars

\* Requests whose requirements are alike and fall into different policy
\* buckets.
WithPolicy(policy) == [ReqA EXCEPT !.policy = policy]

PolicyPool == {ReqA, WithPolicy("Sarbanes-Oxley Act"), WithPolicy("Dodd-Frank Act")}

PolicyRequests == ListsUpTo(PolicyPool, MaxMembers)

NextPolicy ==
    \/ Construct
    \/ \E reqs \in NextRequests(PolicyRequests) : HarmonizeRequirements(reqs)

SpecPolicy == Init /\ [][NextPolicy]_vars

\* Requests that follow a first request with a different list on the same
\* engine.
FollowUps == {<<>>, <<ReqT>>, <<ReqA, ReqA>>, <<ReqA, ReqB>>, <<ReqB, ReqA, ReqT>>}

SequenceRequests == IF calls = 0 THEN TerseRequests ELSE FollowUps

NextSequence ==
    \/ Construct
    \/ \E reqs \in SequenceRequests : HarmonizeRequirements(reqs)

SpecSequence == Init /\ [][NextSequence]_vars

\* ReqA with one field replaced.
WithField(field, value) == [ReqA EXCEPT ![field] = value]

\* Requests whose requirements fall into different buckets of the name axes,
\* one of them into none but "Other".
ReqD == [ReqA EXCEPT !.actor = "Director", !.requirement = "Report ownership disclosure within 10 days"]

NamePool == {ReqA, WithField("policy", "Sarbanes-Oxley Act"), ReqD, ReqT}

NameRequests == ListsUpTo(NamePool, MaxMembers)

NextName ==
    \/ Construct
    \/ \E reqs \in NextRequests(NameRequests) : HarmonizeRequirements(reqs)

SpecName == Init /\ [][NextName]_vars

\* Requests whose requirements are alike and differ in the length of the
\* actor: 5, 16 and 41 characters.
ActorPool == {WithField("actor", "Owner"), ReqA,
              WithField("actor", "Beneficial owner of more than ten percent")}

ActorRequests == ListsUpTo(ActorPool, MaxMembers)

NextActor ==
    \/ Construct
    \/ \E reqs \in NextRequests(ActorRequests) : HarmonizeRequirements(reqs)

SpecActor == Init /\ [][NextActor]_vars

\* Requests whose requirements are alike and differ in the trigger: two
\* without a qualifier, one with "Within" and one with "IMMEDIATELY".
TriggerPool == {ReqA, WithField("trigger", "Within 10 days of acquisition"),
                WithField("trigger", "IMMEDIATELY upon acquisition"),
                WithField("trigger", "Promptly")}

TriggerRequests == ListsUpTo(TriggerPool, MaxMembers)

NextTrigger ==
    \/ Construct
    \/ \E reqs \in NextRequests(TriggerRequests) : HarmonizeRequirements(reqs)

SpecTrigger == Init /\ [][NextTrigger]_vars

\* Requests whose requirements are alike and differ in the policy: without a
\* citation, with "Section", with "Rule", and with "section" in lower case.
CitationPool == {ReqA, WithField("policy", "Securities Exchange Act Section 16"),
                 WithField("policy", "Securities Exchange Act Rule 10b-5"),
                 WithField("policy", "Securities Exchange Act section 13")}

CitationRequests == ListsUpTo(CitationPool, MaxMembers)

NextCitation ==
    \/ Construct
    \/ \E reqs \in NextRequests(CitationRequests) : HarmonizeRequirements(reqs)

SpecCitation == Init /\ [][NextCitation]_vars

\* Requests whose requirements share one text and differ in the
\* regulatory_framework: "SEC", "SOX", empty and absent.
FrameworkPool == {ReqA, WithField("regulatory_framework", "SOX"),
                  WithField("regulatory_framework", ""), WithField("regulatory_framework", None)}

FrameworkRequests == ListsUpTo(FrameworkPool, MaxMembers)

NextFramework ==
    \/ Construct
    \/ \E reqs \in NextRequests(FrameworkRequests) : HarmonizeRequirements(reqs)

SpecFramework == Init /\ [][NextFramework]_vars

\* Two requirements whose texts point in opposite directions, among requests
\* with ordinary requirements.
ReqP ==
    ComplianceRequirement("Allowed", "Insiders", "Permitted", "Trading",
                          None, None, <<>>,
                          Fraction(1, 2), None, None, "Low", "Low")
ReqQ ==
    ComplianceRequirement("Forbidden", "Outsiders", "Prohibited", "Abstaining",
                          None, None, <<>>,
                          Fraction(1, 2), None, None, "Low", "Low")

SignedPool == {ReqP, ReqQ, ReqA, ReqC}

SignedRequests == ListsUpTo(SignedPool, MaxReqs)

NextSigned ==
    \/ Construct
    \/ \E reqs \in NextRequests(SignedRequests) : HarmonizeRequirements(reqs)

SpecSigned == Init /\ [][NextSigned]_vars

\* ------------------------------------------------------------------------
\* Properties
\* ------------------------------------------------------------------------

\* the latest call returned a report
Returned == calls > 0 /\ IsReport(report)

ClusterIndices(cluster) == Range(cluster.req_indices)

ClusterSizes(clusters) == ComputedSeq([c \in DOMAIN clusters |-> Len(clusters[c].requirements)])

\* the members of every cluster are the requirements at its input positions
MembersAreInputs ==
    \A c \in DOMAIN report.clusters :
        LET cl == report.clusters[c] IN
        /\ Len(cl.requirements) = Len(cl.req_indices)
        /\ \A m \in DOMAIN cl.req_indices :
               /\ cl.req_indices[m] \in DOMAIN requirements
               /\ cl.requirements[m] = requirements[cl.req_indices[m]]

\* C1: every input requirement is a member of some cluster of the report and
\* the cluster sizes sum to len(requirements): no requirement is dropped,
\* a noise point being a cluster of its own.
C1_NoRequirementDropped ==
    Returned =>
        /\ SumSeq(ClusterSizes(report.clusters)) = Len(requirements)
        /\ \A i \in DOMAIN requirements :
               \E c \in DOMAIN report.clusters : i \in ClusterIndices(report.clusters[c])

\* C2: no input position is a member of more than one cluster of the report
\* (nor twice of one), so the cluster sizes never sum to more than
\* len(requirements).
C2_ClustersDisjoint ==
    Returned =>
        /\ MembersAreInputs
        /\ \A c \in DOMAIN report.clusters :
               Cardinality(ClusterIndices(report.clusters[c])) = Len(report.clusters[c].req_indices)
        /\ \A c, d \in DOMAIN report.clusters :
               c # d => ClusterIndices(report.clusters[c]) \cap ClusterIndices(report.clusters[d]) = {}
        /\ SumSeq(ClusterSizes(report.clusters)) <= Len(requirements)

\* a report of two clusters of two members each
C2_Witness ==
    /\ Returned
    /\ Len(report.clusters) = 2
    /\ \A c \in DOMAIN report.clusters : Len(report.clusters[c].requirements) = 2

\* C3 as stated: the harmonized penalty of every cluster contains every
\* non-null penalty string of its members and is null only when no member has
\* a non-null penalty.
C3_PenaltyHoldsEveryNonNull ==
    Returned =>
        \A c \in DOMAIN report.clusters :
            LET cl == report.clusters[c]
                h == cl.harmonized_requirement
            IN /\ \A m \in DOMAIN cl.requirements :
                      cl.requirements[m].penalty # None =>
                          h.penalty # None /\ Contains(h.penalty, cl.requirements[m].penalty)
               /\ h.penalty = None =>
                      \A m \in DOMAIN cl.requirements : cl.requirements[m].penalty = None

\* C3 amended: the harmonized penalty of every cluster contains every
\* non-empty penalty string of its members and is null only when no member
\* has a non-empty penalty.
C3_PenaltyHoldsEveryNonEmpty ==
    Returned =>
        \A c \in DOMAIN report.clusters :
            LET cl == report.clusters[c]
                h == cl.harmonized_requirement
            IN /\ \A m \in DOMAIN cl.requirements :
                      Truthy(cl.requirements[m].penalty) =>
                          h.penalty # None /\ Contains(h.penalty, cl.requirements[m].penalty)
               /\ h.penalty = None =>
                      \A m \in DOMAIN cl.requirements : ~Truthy(cl.requirements[m].penalty)

\* a cluster whose members carry two different penalties and one none
C3_Witness ==
    /\ Returned
    /\ \E c \in DOMAIN report.clusters :
           LET ps == Field(report.clusters[c].requirements, "penalty") IN
           /\ {"fines", "sanctions", None} \subseteq Range(ps)
           /\ ps[1] = "sanctions"
           /\ report.clusters[c].harmonized_requirement.penalty # None

Severities == {"Low", "Medium", "High"}

\* the harmonized value is at least every member's value and is one of them
IsMaxSeverity(value, members) ==
    /\ \A m \in DOMAIN members : Priority(value) >= Priority(members[m])
    /\ value \in Range(members)

\* C4: in a cluster whose members carry severities from {Low, Medium, High},
\* the harmonized risk_level (business_impact) is greater than or equal to
\* every member's under Low < Medium < High and equals one member's value.
C4_SeverityIsMaximum ==
    Returned =>
        \A c \in DOMAIN report.clusters :
            LET cl == report.clusters[c]
                h == cl.harmonized_requirement
                risks == Field(cl.requirements, "risk_level")
                impacts == Field(cl.requirements, "business_impact")
            IN /\ Range(risks) \subseteq Severities => IsMaxSeverity(h.risk_level, risks)
               /\ Range(impacts) \subseteq Severities => IsMaxSeverity(h.business_impact, impacts)

\* a cluster of three members whose highest severities are not the first
\* member's
C4_Witness ==
    /\ Returned
    /\ \E c \in DOMAIN report.clusters :
           LET cl == report.clusters[c] IN
           /\ Field(cl.requirements, "risk_level") = <<"Low", "Medium", "High">>
           /\ Field(cl.requirements, "business_impact") = <<"High", "Medium", "Low">>
           /\ cl.harmonized_requirement.risk_level = "High"
           /\ cl.harmonized_requirement.business_impact = "High"

\* C5: on a one-element list [r] the report has exactly one cluster whose
\* only member is r, with similarity_score 1.0 and r itself, every field
\* unchanged, as its harmonized requirement; harmonized_requirements is [r]
\* and harmonization_ratio is 1.
C5_SingletonUnchanged ==
    (calls > 0 /\ Len(requirements) = 1) =>
        /\ IsReport(report)
        /\ Len(report.clusters) = 1
        /\ report.total_clusters = 1
        /\ report.clusters[1].requirements = requirements
        /\ report.clusters[1].similarity_score = 100
        /\ report.clusters[1].harmonized_requirement = requirements[1]
        /\ report.harmonized_requirements = requirements
        /\ report.harmonization_ratio = Fraction(1, 1)

\* C6: a call with the same input list as the call before it returns the
\* same report: the same clusters (ids, members, order) and the same
\* harmonized requirements, the centroid pass included.
C6_Deterministic ==
    [][(calls >= 1 /\ calls' = calls + 1 /\ requirements' = requirements) => report' = report]_vars

\* a list submitted twice whose clusters come from the centroid pass
C6_Witness ==
    /\ Returned
    /\ calls = 2
    /\ "KMeans" \in Range(steps)
    /\ Len(report.clusters) = 2

\* C7: total_clusters = len(harmonized_requirements) = len(clusters) in every
\* report, the report of the empty list included.
C7_CountsAgree ==
    Returned =>
        /\ report.total_clusters = Len(report.harmonized_requirements)
        /\ report.total_clusters = Len(report.clusters)

\* a report of a merged cluster and a cluster of one member
C7_Witness ==
    /\ Returned
    /\ report.total_clusters = 2
    /\ \E c, d \in DOMAIN report.clusters :
           Len(report.clusters[c].requirements) = 1 /\ Len(report.clusters[d].requirements) > 1

\* C8: for every index i, harmonized_requirements[i] is the harmonized
\* requirement of clusters[i]: non-null, stored on the cluster, and built
\* from the members of clusters[i].
C8_SameIndexSameCluster ==
    Returned =>
        \A i \in DOMAIN report.clusters \cup DOMAIN report.harmonized_requirements :
            /\ i \in DOMAIN report.clusters
            /\ i \in DOMAIN report.harmonized_requirements
            /\ report.clusters[i].harmonized_requirement # NoRequirement
            /\ report.clusters[i].harmonized_requirement = report.harmonized_requirements[i]
            /\ report.harmonized_requirements[i] =
                   _create_harmonized_requirement(report.clusters[i].requirements)

\* a report of two merged clusters with different harmonized requirements
C8_Witness ==
    /\ Returned
    /\ Len(report.clusters) = 2
    /\ report.harmonized_requirements[1] # report.harmonized_requirements[2]
    /\ \A c \in DOMAIN report.clusters : Len(report.clusters[c].requirements) > 1

\* no cluster of the report holds two requirements
NothingMerged == \A c \in DOMAIN report.clusters : Len(report.clusters[c].requirements) <= 1

\* C9: for a non-empty list, harmonization_ratio is
\* len(harmonized_requirements) / len(original_requirements),
\* original_requirements is the input list in its order, and the ratio lies
\* in 0..1, being 1 exactly when no two requirements were merged.
C9_RatioOneIffNothingMerged ==
    (Returned /\ Len(requirements) > 0) =>
        /\ report.original_requirements = requirements
        /\ report.harmonization_ratio =
               Fraction(Len(report.harmonized_requirements), Len(report.original_requirements))
        /\ report.harmonization_ratio.num >= 0
        /\ report.harmonization_ratio.num <= report.harmonization_ratio.den
        /\ (report.harmonization_ratio = Fraction(1, 1)) <=> NothingMerged

\* C10: on the empty list the call raises nothing and returns a report with
\* no clusters, no harmonized requirements, total_clusters 0 and
\* harmonization_ratio 0, and runs neither the embedding nor the clustering.
C10_EmptyList ==
    (calls > 0 /\ requirements = <<>>) =>
        /\ IsReport(report)
        /\ report.clusters = <<>>
        /\ report.harmonized_requirements = <<>>
        /\ report.total_clusters = 0
        /\ report.harmonization_ratio = Fraction(0, 1)
        /\ report.original_requirements = <<>>
        /\ steps = <<>>
        /\ ~vectorizer.fitted

\* the empty list answered by an engine without the sentence model
C10_Witness ==
    /\ Returned
    /\ requirements = <<>>
    /\ sentence_model = None
    /\ report.total_clusters = 0

\* the vectors the engine of this state computes for the latest request
EmbeddingsOf(reqs) ==
    _generate_embeddings(sentence_model, UnfittedVectorizer, _prepare_texts_for_clustering(reqs)).embeddings

\* a and b lie within the density radius of each other, c within that of
\* neither
TwoNearOneFar(emb) ==
    /\ Len(emb) = 3
    /\ WithinEps(emb[1], emb[2])
    /\ ~WithinEps(emb[1], emb[3])
    /\ ~WithinEps(emb[2], emb[3])

\* C11: for the three requirements a, b (10 days / fines, 30 days /
\* sanctions) and c (unrelated), a and b within the density radius and c
\* outside it, the report has exactly the two clusters {a, b} and {c}; the
\* harmonized deadline of {a, b} is "10 days" and its penalty
\* "fines; sanctions".
C11_TwoNearOneFarScenario ==
    (Returned /\ requirements = <<ReqA, ReqB, ReqC>> /\ TwoNearOneFar(EmbeddingsOf(requirements))) =>
        /\ Len(report.clusters) = 2
        /\ report.clusters[1].requirements = <<ReqA, ReqB>>
        /\ report.clusters[2].requirements = <<ReqC>>
        /\ report.clusters[1].harmonized_requirement.deadline = "10 days"
        /\ report.clusters[1].harmonized_requirement.penalty = "fines; sanctions"

\* the report is one cluster that holds every requirement of the request
OneClusterOfAll ==
    /\ Len(report.clusters) = 1
    /\ report.clusters[1].requirements = requirements
    /\ report.harmonization_ratio = Fraction(1, Len(requirements))

C13_FallbackAlwaysReports ==
    (constructed /\ sentence_model = None /\ calls > 0) =>
        /\ IsReport(report)
        /\ requirements # <<>> => vectorizer.fitted /\ "_generate_embeddings" \in Range(steps)

\* what a freshly constructed engine with the same embedding backend returns
\* for the list reqs
FreshReport(reqs) ==
    LET Respond(clustered) ==
            IF clustered.raised THEN Raised ELSE BuildResponse(reqs, clustered.clusters)
    IN Respond(cluster_requirements(sentence_model, UnfittedVectorizer, reqs, random_state))

\* C14: after any sequence of calls on one engine, the result of the latest
\* call is the one a freshly constructed engine with the same embedding
\* backend returns for the same list, whatever lists the earlier calls were
\* given, also on the TF-IDF path.
C14_ReportIndependentOfEarlierCalls ==
    calls > 0 => report = FreshReport(requirements)

\* a second call on the TF-IDF path, on a vectorizer the first call fitted,
\* that returns a report with a merged cluster
C14_Witness ==
    /\ Returned
    /\ calls = 2
    /\ sentence_model = None
    /\ requirements = <<ReqA, ReqA>>
    /\ vectorizer.fitted
    /\ Len(report.clusters) = 1

\* C15: after every call the caller's list holds the same requirements with
\* the same field values as the list that was submitted.
C15_InputsUnchanged ==
    calls > 0 => requirements_after = requirements

\* a call that merged two members with different mapped controls and
\* penalties into a new requirement
C15_Witness ==
    /\ Returned
    /\ requirements_after = <<ReqA, ReqB>>
    /\ Len(report.clusters) = 1
    /\ Len(report.clusters[1].harmonized_requirement.mapped_controls) = 2
    /\ report.clusters[1].harmonized_requirement.penalty = "fines; sanctions"

\* the number of clusters, noise apart, among density labels
NonNoiseClusters(dbscan_labels) == Cardinality(Range(dbscan_labels) \ {-1})

\* the labels _perform_clustering returned in the latest call are those of
\* the centroid pass
ReturnedCentroidLabels(emb) ==
    /\ "KMeans" \in Range(steps)
    /\ _perform_clustering(emb, random_state) = KMeans(emb, NClusters(Len(emb)), random_state)

\* C16: for N >= 2, whenever the density pass yields at most one non-noise
\* cluster (none, one covering every point, or one plus noise points) and
\* k = min(N div 2, 20) >= 2, the labels returned are those of the centroid
\* pass.
C16_CentroidPassOnAtMostOneCluster ==
    LET CentroidWhenCalledFor(emb) ==
            (Len(emb) >= 2 /\ NClusters(Len(emb)) >= 2
               /\ NonNoiseClusters(DBSCAN(emb, min_cluster_size)) <= 1) => ReturnedCentroidLabels(emb)
    IN Returned => CentroidWhenCalledFor(EmbeddingsOf(requirements))

\* C17: when the centroid pass is called for but skipped (N = 1, or N is 2
\* or 3, where k = min(N div 2, 20) < 2, and the density pass found at most
\* one non-noise cluster), the report is one single cluster that holds all N
\* requirements.
C17_SkippedCentroidPassOneCluster ==
    LET Skipped(emb) ==
            \/ Len(emb) = 1
            \/ /\ Len(emb) >= 2
               /\ NClusters(Len(emb)) < 2
               /\ NonNoiseClusters(DBSCAN(emb, min_cluster_size)) <= 1
    IN (Returned /\ Skipped(EmbeddingsOf(requirements))) =>
           /\ Len(report.clusters) = 1
           /\ report.clusters[1].requirements = requirements

\* the positions each cluster of a cluster list holds, cluster by cluster
IndicesByCluster(clusters) == ComputedSeq([c \in DOMAIN clusters |-> clusters[c].req_indices])

DeadlineDays(d) == FirstInt(d) * (IF Contains(Lower(d), "week") THEN 7 ELSE 1)

\* h is the deadline C19 describes for members whose deadlines are ds
IsDeadlineOf(h, ds) ==
    LET given == SelectSeq(ds, LAMBDA d : d # None)
        immediate == SelectSeq(given, LAMBDA d : Contains(Lower(d), "immediately"))
        numeric == SelectSeq(given, HasDigit)
    IN /\ (h = None) <=> (given = <<>>)
       /\ immediate # <<>> => h = immediate[1]
       /\ (immediate = <<>> /\ numeric # <<>>) =>
              /\ h \in Range(numeric)
              /\ \A i \in DOMAIN numeric : FirstInt(h) <= FirstInt(numeric[i])
              /\ \A i \in DOMAIN numeric : DeadlineDays(h) <= DeadlineDays(numeric[i])
       /\ (immediate = <<>> /\ numeric = <<>> /\ given # <<>>) => h = given[1]

\* C19: in a cluster of two or more members the harmonized deadline is the
\* first member deadline that contains "immediately"; else a member deadline
\* with the smallest number, which is no later than any other member's
\* numeric deadline; else the first non-null member deadline; and null
\* exactly when no member has a deadline.
C19_DeadlineIsTightest ==
    Returned =>
        \A c \in DOMAIN report.clusters :
            Len(report.clusters[c].requirements) >= 2 =>
                IsDeadlineOf(report.clusters[c].harmonized_requirement.deadline,
                             Field(report.clusters[c].requirements, "deadline"))

\* the buckets of each axis in the order the code tests for them
PolicyBuckets == <<"SEC", "SOX", "Dodd-Frank", "Other">>
ActorBuckets == <<"Beneficial Owners", "Executive Officers", "Directors", "Registrants", "Other">>
RequirementBuckets == <<"Reporting", "Disclosure", "Filing", "Maintenance", "Other">>

\* b holds the largest number of members, and of the buckets that do it is
\* the first in the enumeration order
IsModeInOrder(b, buckets, order) ==
    /\ b \in Range(buckets)
    /\ \A x \in Range(buckets) : Count(buckets, x) <= Count(buckets, b)
    /\ \A i, j \in DOMAIN order :
           (order[j] = b /\ i < j) => Count(buckets, order[i]) < Count(buckets, b)

\* b holds the largest number of members, and of the buckets that do it is
\* the one whose first member comes first in the member list
IsModeFirstMember(b, buckets) ==
    /\ b \in Range(buckets)
    /\ \A x \in Range(buckets) : Count(buckets, x) <= Count(buckets, b)
    /\ \A i, j \in DOMAIN buckets :
           (buckets[j] = b /\ i < j /\ \A k \in 1..(j - 1) : buckets[k] # b) =>
               (buckets[i] = b \/ Count(buckets, buckets[i]) < Count(buckets, b))

PolicyBucketsOf(members) == ComputedSeq([i \in DOMAIN members |-> PolicyBucket(members[i].policy)])
ActorBucketsOf(members) == ComputedSeq([i \in DOMAIN members |-> ActorBucket(members[i].actor)])
RequirementBucketsOf(members) == ComputedSeq([i \in DOMAIN members |-> RequirementBucket(members[i].requirement)])

\* C20 as stated: the bucket named on each axis holds the largest number of
\* members and, on a tie, is the first in the fixed enumeration order of the
\* axis, whatever the order of the members.
C20_TieByEnumerationOrder ==
    Returned =>
        \A c \in DOMAIN report.clusters :
            \E p \in Range(PolicyBuckets), a \in Range(ActorBuckets), r \in Range(RequirementBuckets) :
                /\ report.clusters[c].cluster_name = p \o " - " \o a \o " - " \o r
                /\ IsModeInOrder(p, PolicyBucketsOf(report.clusters[c].requirements), PolicyBuckets)
                /\ IsModeInOrder(a, ActorBucketsOf(report.clusters[c].requirements), ActorBuckets)
                /\ IsModeInOrder(r, RequirementBucketsOf(report.clusters[c].requirements), RequirementBuckets)

\* C20 amended: the bucket named on each axis holds the largest number of
\* members and, on a tie, is the one whose first member comes first in the
\* cluster, so that the name depends on the order of the members.
C20_TieByFirstMember ==
    Returned =>
        \A c \in DOMAIN report.clusters :
            \E p \in Range(PolicyBuckets), a \in Range(ActorBuckets), r \in Range(RequirementBuckets) :
                /\ report.clusters[c].cluster_name = p \o " - " \o a \o " - " \o r
                /\ IsModeFirstMember(p, PolicyBucketsOf(report.clusters[c].requirements))
                /\ IsModeFirstMember(a, ActorBucketsOf(report.clusters[c].requirements))
                /\ IsModeFirstMember(r, RequirementBucketsOf(report.clusters[c].requirements))

\* a cluster of a SOX member followed by a SEC member, named after SOX
C20_Witness ==
    /\ Returned
    /\ \E c \in DOMAIN report.clusters :
           /\ PolicyBucketsOf(report.clusters[c].requirements) = <<"SOX", "SEC">>
           /\ report.clusters[c].cluster_name = "SOX - Beneficial Owners - Filing"

\* b is a bucket that holds the largest number of members
IsMode(b, buckets) ==
    /\ b \in Range(buckets)
    /\ \A x \in Range(buckets) : Count(buckets, x) <= Count(buckets, b)

\* every member is counted in exactly one bucket of the axis
OneBucketEach(buckets, axis) ==
    /\ \A m \in DOMAIN buckets : Cardinality({k \in DOMAIN axis : axis[k] = buckets[m]}) = 1
    /\ SumSeq([k \in DOMAIN axis |-> Count(buckets, axis[k])]) = Len(buckets)

\* C21: every cluster of a report is non-empty, each member is counted in
\* exactly one bucket per axis, the cluster name is
\* "<family> - <actor category> - <obligation type>" with each part a bucket of
\* the largest member count on its axis, and it is "Other - Other - Other"
\* when no member matches a keyword.
C21_NameOfLargestBuckets ==
    Returned =>
        \A c \in DOMAIN report.clusters :
            LET members == report.clusters[c].requirements
                ps == PolicyBucketsOf(members)
                as == ActorBucketsOf(members)
                rs == RequirementBucketsOf(members)
            IN /\ members # <<>>
               /\ OneBucketEach(ps, PolicyBuckets)
               /\ OneBucketEach(as, ActorBuckets)
               /\ OneBucketEach(rs, RequirementBuckets)
               /\ \E p \in Range(PolicyBuckets), a \in Range(ActorBuckets), r \in Range(RequirementBuckets) :
                      /\ report.clusters[c].cluster_name = p \o " - " \o a \o " - " \o r
                      /\ IsMode(p, ps)
                      /\ IsMode(a, as)
                      /\ IsMode(r, rs)
               /\ (Range(ps) \cup Range(as) \cup Range(rs) = {"Other"}) =>
                      report.clusters[c].cluster_name = "Other - Other - Other"

\* a cluster whose first member is alone in its policy bucket, named after
\* the policy bucket of the other two
C21_Witness ==
    /\ Returned
    /\ \E c \in DOMAIN report.clusters :
           /\ PolicyBucketsOf(report.clusters[c].requirements) = <<"SOX", "SEC", "SEC">>
           /\ report.clusters[c].cluster_name = "SEC - Beneficial Owners - Filing"

\* value is the first of the longest strings of texts
IsFirstLongest(value, texts) ==
    \E m \in DOMAIN texts :
        /\ value = texts[m]
        /\ \A j \in DOMAIN texts : Len(texts[j]) <= Len(texts[m])
        /\ \A j \in DOMAIN texts : j < m => Len(texts[j]) < Len(texts[m])

\* C22: in a cluster of two or more members the harmonized actor is the
\* longest actor string among the members, the first of them in member order
\* when several share the greatest length.
C22_ActorIsLongest ==
    Returned =>
        \A c \in DOMAIN report.clusters :
            Len(report.clusters[c].requirements) >= 2 =>
                IsFirstLongest(report.clusters[c].harmonized_requirement.actor,
                               Field(report.clusters[c].requirements, "actor"))

\* C23: in a cluster of two or more members the harmonized requirement text
\* is the requirement text of a member, the first of those with the greatest
\* length, and never the placeholder "Compliance requirement" nor any other
\* text that no member carries.
C23_RequirementIsFirstLongest ==
    Returned =>
        \A c \in DOMAIN report.clusters :
            LET texts == Field(report.clusters[c].requirements, "requirement")
                h == report.clusters[c].harmonized_requirement
            IN Len(texts) >= 2 =>
                   /\ h.requirement \in Range(texts)
                   /\ "Compliance requirement" \notin Range(texts) => h.requirement # "Compliance requirement"
                   /\ IsFirstLongest(h.requirement, texts)

\* a cluster whose first two members carry different texts of the greatest
\* length, harmonized to the text of the first
C23_Witness ==
    /\ Returned
    /\ \E c \in DOMAIN report.clusters :
           LET texts == Field(report.clusters[c].requirements, "requirement") IN
           /\ Len(texts) >= 2
           /\ texts[1] # texts[2]
           /\ Len(texts[1]) = Len(texts[2])
           /\ \A m \in DOMAIN texts : Len(texts[m]) <= Len(texts[1])
           /\ report.clusters[c].harmonized_requirement.requirement = texts[1]

\* the trigger holds "within" or "immediately" in any case
IsRestrictive(t) == Contains(Lower(t), "within") \/ Contains(Lower(t), "immediately")

\* value is the first element of seq that satisfies wanted, and seq[1] when
\* none does; wanted[i] tells whether seq[i] satisfies it
IsFirstWantedElseFirst(value, seq, wanted) ==
    IF \E m \in DOMAIN seq : wanted[m]
    THEN \E m \in DOMAIN seq :
             /\ wanted[m]
             /\ \A j \in DOMAIN seq : j < m => ~wanted[j]
             /\ value = seq[m]
    ELSE value = seq[1]

\* C24: in a cluster of two or more members the harmonized trigger is the
\* first member trigger that contains "within" or "immediately",
\* case-insensitively, and the first member's trigger when none does.
C24_TriggerIsFirstRestrictive ==
    Returned =>
        \A c \in DOMAIN report.clusters :
            LET triggers == Field(report.clusters[c].requirements, "trigger") IN
            Len(triggers) >= 2 =>
                IsFirstWantedElseFirst(report.clusters[c].harmonized_requirement.trigger, triggers,
                                       [m \in DOMAIN triggers |-> IsRestrictive(triggers[m])])

\* a cluster whose first trigger has no qualifier and whose second has one in
\* upper case, harmonized to the second
C24_Witness ==
    /\ Returned
    /\ \E c \in DOMAIN report.clusters :
           LET triggers == Field(report.clusters[c].requirements, "trigger") IN
           /\ Len(triggers) >= 2
           /\ triggers[1] = "Upon acquisition"
           /\ triggers[2] = "IMMEDIATELY upon acquisition"
           /\ report.clusters[c].harmonized_requirement.trigger = triggers[2]

\* the policy holds the text "Section" or the text "Rule"
IsCited(p) == Contains(p, "Section") \/ Contains(p, "Rule")

\* C25: in a cluster of two or more members the harmonized policy is the
\* first member policy that contains the text "Section" or "Rule", and the
\* first member's policy when none does.
C25_PolicyIsFirstCited ==
    Returned =>
        \A c \in DOMAIN report.clusters :
            LET policies == Field(report.clusters[c].requirements, "policy") IN
            Len(policies) >= 2 =>
                IsFirstWantedElseFirst(report.clusters[c].harmonized_requirement.policy, policies,
                                       [m \in DOMAIN policies |-> IsCited(policies[m])])

\* a cluster whose first two policies cite nothing (one of them a "section"
\* in lower case) and whose third cites a rule, harmonized to the third
C25_Witness ==
    /\ Returned
    /\ \E c \in DOMAIN report.clusters :
           LET policies == Field(report.clusters[c].requirements, "policy") IN
           /\ Len(policies) = 3
           /\ policies[1] = "Securities Exchange Act"
           /\ policies[2] = "Securities Exchange Act section 13"
           /\ policies[3] = "Securities Exchange Act Rule 10b-5"
           /\ report.clusters[c].harmonized_requirement.policy = policies[3]

\* value joins the strings of the set with "; ", each once, in some order
IsJoinOfDistinct(value, strings) ==
    \E order \in [1..Cardinality(strings) -> strings] :
        /\ Range(order) = strings
        /\ value = Join("; ", order)

\* C26: in a cluster of two or more members the harmonized penalty joins the
\* distinct non-null member penalties with "; ", so that a penalty carried by
\* several members appears once, not once per member.
C26_PenaltyJoinsDistinct ==
    Returned =>
        \A c \in DOMAIN report.clusters :
            LET penalties == Range(Field(report.clusters[c].requirements, "penalty")) \ {None}
                h == report.clusters[c].harmonized_requirement
            IN (Len(report.clusters[c].requirements) >= 2 /\ penalties # {}) =>
                   IsJoinOfDistinct(h.penalty, penalties)

ControlIds(controls) == {controls[k].control_id : k \in DOMAIN controls}

\* C27: in a cluster of two or more members the harmonized mapped_controls
\* hold one control per distinct control_id of the members' controls: every
\* member control_id is present, none occurs twice, and every control is a
\* control of some member.
C27_ControlsUniqueById ==
    Returned =>
        \A c \in DOMAIN report.clusters :
            LET members == report.clusters[c].requirements
                all_controls == Flatten(Field(members, "mapped_controls"))
                h == report.clusters[c].harmonized_requirement.mapped_controls
            IN Len(members) >= 2 =>
                   /\ ControlIds(h) = ControlIds(all_controls)
                   /\ Len(h) = Cardinality(ControlIds(h))
                   /\ Range(h) \subseteq Range(all_controls)

\* a cluster whose members carry three controls under two control_ids, one
\* id in two different states
C27_Witness ==
    /\ Returned
    /\ \E c \in DOMAIN report.clusters :
           LET all_controls == Flatten(Field(report.clusters[c].requirements, "mapped_controls")) IN
           /\ Len(all_controls) = 3
           /\ Cardinality(Range(all_controls)) = 3
           /\ Len(report.clusters[c].harmonized_requirement.mapped_controls) = 2

\* value is one of the counted values and none of them occurs more often;
\* it is null exactly when no value is counted.  counted is the set of member
\* values that count.
IsMostFrequentOf(value, values, counted) ==
    /\ value = None <=> counted = {}
    /\ value # None =>
           /\ value \in counted
           /\ \A x \in counted : Count(values, x) <= Count(values, value)

\* C28 as stated: in a cluster of two or more members the harmonized
\* regulatory_framework is a non-null member value that occurs at least as
\* often as any other non-null value, and is null exactly when every member's
\* regulatory_framework is null.
C28_FrameworkMostFrequentNonNull ==
    Returned =>
        \A c \in DOMAIN report.clusters :
            LET values == Field(report.clusters[c].requirements, "regulatory_framework") IN
            Len(values) >= 2 =>
                IsMostFrequentOf(report.clusters[c].harmonized_requirement.regulatory_framework,
                                 values, Range(values) \ {None})

\* C28 amended: in a cluster of two or more members the harmonized
\* regulatory_framework is a non-empty member value that occurs at least as
\* often as any other non-empty value, and is null exactly when every
\* member's regulatory_framework is null or empty.
C28_FrameworkMostFrequentNonEmpty ==
    Returned =>
        \A c \in DOMAIN report.clusters :
            LET values == Field(report.clusters[c].requirements, "regulatory_framework") IN
            Len(values) >= 2 =>
                IsMostFrequentOf(report.clusters[c].harmonized_requirement.regulatory_framework,
                                 values, {x \in Range(values) : Truthy(x)})

\* a cluster whose first member is alone with its framework, harmonized to
\* the framework of the other two
C28_Witness ==
    /\ Returned
    /\ \E c \in DOMAIN report.clusters :
           /\ Field(report.clusters[c].requirements, "regulatory_framework") = <<"SOX", "SEC", "SEC">>
           /\ report.clusters[c].harmonized_requirement.regulatory_framework = "SEC"

\* the mean, in hundredths, of the cosine similarities of the pairs of
\* distinct members at the positions indices of the vectors emb
MeanPairwiseCosine(emb, indices) ==
    LET pairs == {pr \in indices \X indices : pr[1] < pr[2]}
        cos == [pr \in pairs |-> CosineHundredths(emb[pr[1]], emb[pr[2]])]
    IN (2 * SumOver(cos, pairs)) \div (Cardinality(indices) * (Cardinality(indices) - 1))

\* the latest call got vectors from the embedding step and went on to make
\* clusters of them
ClustersMade ==
    /\ calls > 0
    /\ \E k \in DOMAIN steps : steps[k] = "_create_clusters"

\* C29: whatever vectors the embedding step returns, the call reports
\* clusters whose similarity_score lies in 0..1: 1.0 for a singleton cluster
\* and otherwise the mean of the pairwise cosine similarities of its
\* distinct members.
C29_SimilarityInUnitRange ==
    ClustersMade =>
        /\ IsReport(report)
        /\ \A c \in DOMAIN report.clusters :
               LET cl == report.clusters[c] IN
               /\ cl.similarity_score \in 0..100
               /\ cl.similarity_score =
                      IF Len(cl.requirements) = 1 THEN 100
                      ELSE MeanPairwiseCosine(EmbeddingsOf(requirements), ClusterIndices(cl))

\* C30: in every report each cluster is non-empty and has a cluster_id of
\* its own, the members of a cluster are the requirements at increasing
\* input positions, and the clusters are listed in the order in which their
\* first members occur in the input list.
C30_ClustersInInputOrder ==
    Returned =>
        /\ MembersAreInputs
        /\ \A c \in DOMAIN report.clusters : report.clusters[c].requirements # <<>>
        /\ \A c, d \in DOMAIN report.clusters :
               c # d => report.clusters[c].cluster_id # report.clusters[d].cluster_id
        /\ \A c \in DOMAIN report.clusters :
               \A m, n \in DOMAIN report.clusters[c].req_indices :
                   m < n => report.clusters[c].req_indices[m] < report.clusters[c].req_indices[n]
        /\ \A c, d \in DOMAIN report.clusters :
               c < d => report.clusters[c].req_indices[1] < report.clusters[d].req_indices[1]

\* a report of two clusters, the one listed first carrying the greater label
\* and holding the input positions around the single member of the other
C30_Witness ==
    /\ Returned
    /\ Len(report.clusters) = 2
    /\ report.clusters[1].cluster_id = "CLUSTER-1"
    /\ report.clusters[1].req_indices = <<1, 2, 4>>
    /\ report.clusters[2].cluster_id = "CLUSTER-0"
    /\ report.clusters[2].req_indices = <<3>>

====
